---- MODULE Spec2Model ----
(***************************************************************************)
(* Model of bbs2gh-migration.py: the migration pipeline that exports a     *)
(* Bitbucket repository, downloads the archive, excludes the new           *)
(* repository name from the managed organization rulesets, imports the     *)
(* archive into GitHub, runs the post-migration steps and finally removes  *)
(* the exclusion again.                                                    *)
(*                                                                         *)
(* Strings that the program transforms (repository names) are sequences of *)
(* one-character strings; every other string is a TLA+ string.             *)
(***************************************************************************)
EXTENDS Integers, Sequences, FiniteSets, TLC

VARIABLES
    status,                   \* "init", "running", "done", "exited" (sys.exit), "crashed" (uncaught exception), "blocked"
    ip,                       \* index of the current statement of run_migration
    sub,                      \* loop index inside repo_name_to_exclusion_ruleset (0: before the list read)
    args,                     \* the command line arguments
    BB_REPO_NAME,             \* normalised by process_input
    GH_NEW_REPO_NAME,         \* set by get_new_repo_name
    EXPORT_ARCHIVE_FILE_PATH, \* return value of run_export_archive
    rulesets,                 \* the organization rulesets on the destination platform
    rulesets0,                \* the rulesets when the run started
    ledger,                   \* rows of migration_tracker.txt
    staged,                   \* the staged copy of the archive exists in /mnt/bbmigration
    calls,                    \* statements of run_migration started, in order
    finished,                 \* statements of run_migration that returned, in order
    api,                      \* requests and child processes issued, in order, with their outcome
    effects,                  \* mutations applied to the destination repository, in order
    writes,                   \* ruleset writes issued by update_ruleset, in order
    faults                    \* refused requests and failing child processes met so far

\* Two runs that append to migration_tracker.txt at the same time
VARIABLES
    migration_tracker,        \* the rows of the shared file on the platform
    tracker0,                 \* its rows before the two runs
    appender,                 \* per run: position and the locals sha and content of update_migration_tracker
    tracker_log               \* the requests for the file the platform has answered, in order

\* Two runs that toggle the same organization ruleset
VARIABLES
    org_ruleset,              \* the conditions of the ruleset on the platform
    toggler,                  \* per run: position and the local existing_ruleset_condition
    serialized                \* the runs are started one after the other by their operator

\* One derivation of the destination name
VARIABLES
    request,                  \* the command line arguments the name is derived from
    derived                   \* position, the normalised BB_REPO_NAME and the returned name

\* One child process and the driver that streams its output
VARIABLES
    child,                    \* position of the child and what it still has to write to each stream
    pipes,                    \* what each pipe holds, written by the child and not yet read
    driver                    \* the driver (export or import), its position and what it has read

\* the variables of the single run
main == <<status, ip, sub, args, BB_REPO_NAME, GH_NEW_REPO_NAME, EXPORT_ARCHIVE_FILE_PATH,
          rulesets, rulesets0, ledger, staged, calls, finished, api, effects, writes, faults>>

tracker_vars == <<migration_tracker, tracker0, appender, tracker_log>>

toggle_vars == <<org_ruleset, toggler, serialized>>

name_vars == <<request, derived>>

stream_vars == <<child, pipes, driver>>

\* the variables of the other scenarios, which a single run leaves alone
aux == <<tracker_vars, toggle_vars, name_vars, stream_vars>>

vars == <<main, aux>>

---------------------------------------------------------------------------
(* Bounds of the model *)

\* longest initial exclude list of the first managed ruleset
MaxExclude == 2

\* most requests refused and child processes failing during one run
MaxFaults == 1

\* most lines a child process writes to its standard output
MaxStdout == 3

\* most blocks a child process writes to its error stream
MaxStderr == 2

\* blocks a pipe holds before a write to it blocks
PipeCapacity == 1

---------------------------------------------------------------------------
(* Strings as sequences of characters *)

Last(s) == s[Len(s)]

SeqsUpTo(S, n) == UNION {[1..k -> S] : k \in 0..n}

Count(x, s) == Cardinality({i \in 1..Len(s) : s[i] = x})

IsPrefixAt(s, old, i) ==
    /\ i + Len(old) - 1 <= Len(s)
    /\ \A k \in 1..Len(old) : s[i + k - 1] = old[k]

\* str.replace(old, new): every non-overlapping occurrence, left to right
RECURSIVE ReplaceFrom(_, _, _, _)
ReplaceFrom(s, old, new, i) ==
    IF i > Len(s) THEN <<>>
    ELSE IF IsPrefixAt(s, old, i)
         THEN new \o ReplaceFrom(s, old, new, i + Len(old))
         ELSE <<s[i]>> \o ReplaceFrom(s, old, new, i + 1)

Replace(s, old, new) == ReplaceFrom(s, old, new, 1)

UpperChars == <<"A", "B", "N", "P", "R", "U", "X", "Y">>
LowerChars == <<"a", "b", "n", "p", "r", "u", "x", "y">>

LowerChar(c) ==
    IF \E i \in 1..Len(UpperChars) : UpperChars[i] = c
    THEN LowerChars[CHOOSE i \in 1..Len(UpperChars) : UpperChars[i] = c]
    ELSE c

\* str.lower()
Lower(s) == [i \in 1..Len(s) |-> LowerChar(s[i])]

\* the sentinel of --user-defined-name
NoneName == <<"N", "o", "n", "e">>

---------------------------------------------------------------------------
(* Module-level values *)

roles == <<"Viewers", "Contributors", "Managers">>

\* the ruleset names of line 622 (the third carries a trailing blank)
ManagedRulesetNames ==
    {"branch_names", "main_and_master", "other_protected_branch ", "restrict_binary_file_upload"}

PipelineTypes == {"Platform_Jenkins", "Old_Jenkins", "Both_Jenkins", "GitHub_Actions"}

\* value of a Python name that was never bound / the None object
None == "None"

ARCHIVE == "/tmp/archive123.tar"

---------------------------------------------------------------------------
(* Identity: process_input and get_new_repo_name *)

normalize(name) == Lower(Replace(name, <<" ">>, <<"-">>))

get_new_repo_name(GH_ORG_NAME, bb_repo_name, PROJECT_CODE, USER_DEFINED_NAME) ==
    LET repo_name_prefix == Replace(GH_ORG_NAME \o <<"-">> \o PROJECT_CODE \o <<"-">>,
                                    <<"p", "r", "u", "-">>, <<>>)
        no_space == IF USER_DEFINED_NAME # NoneName
                    THEN Replace(USER_DEFINED_NAME, <<" ">>, <<"-">>)
                    ELSE Replace(bb_repo_name, <<" ">>, <<"-">>)
    IN  Lower(repo_name_prefix \o no_space)

---------------------------------------------------------------------------
(* Inputs and the initial state *)

\* the catch-all pattern "~ALL" of line 646
ALL == <<"~", "A", "L", "L">>

\* a repository name of some other repository of the organization
OTHER_REPO == <<"z">>

Args(pt, u) ==
    [BB_PROJECT_KEY |-> "PK", BB_REPO_NAME |-> <<"A", " ", "b">>, PROJECT_CODE |-> <<"x">>,
     GH_ORG_NAME |-> <<"p", "r", "u", "-", "y">>, PIPELINE_TYPE |-> pt, USER_DEFINED_NAME |-> u]

ArgCases ==
    {Args(pt, NoneName) : pt \in PipelineTypes} \cup {Args("Platform_Jenkins", <<"B", " ", "a">>)}

\* the destination name the run that starts with arguments a will use
InFlight(a) ==
    get_new_repo_name(a.GH_ORG_NAME, normalize(a.BB_REPO_NAME), a.PROJECT_CODE, a.USER_DEFINED_NAME)

RefName == [include |-> <<"~DEFAULT_BRANCH">>, exclude |-> <<>>]

WithRepositoryName(inc, exc) ==
    [ref_name |-> RefName, repository_name |-> [include |-> inc, exclude |-> exc]]

WithoutRepositoryName == [ref_name |-> RefName]

\* the organization rulesets a run for repository name n can find
Rulesets(c1, c2, c3) ==
    <<[id |-> 1, name |-> "branch_names", conditions |-> c1],
      [id |-> 2, name |-> "other_protected_branch", conditions |-> c2],
      [id |-> 3, name |-> "restrict_binary_file_upload", conditions |-> c3]>>

\* the organization rulesets a run for repository name n can find
InitialRulesets(n) ==
    {Rulesets(WithRepositoryName(inc, exc), WithRepositoryName(<<ALL>>, <<n>>),
              WithRepositoryName(<<ALL>>, <<OTHER_REPO>>)) :
        inc \in {<<>>, <<ALL>>}, exc \in SeqsUpTo({n, OTHER_REPO}, MaxExclude)}
    \cup
    {Rulesets(WithRepositoryName(<<>>, <<>>), WithRepositoryName(<<ALL>>, <<>>), c3) :
        c3 \in {WithoutRepositoryName, WithRepositoryName(<<>>, <<>>), WithRepositoryName(<<>>, <<n>>)}}

\* no run appends to the shared file
TrackerIdle ==
    /\ migration_tracker = <<>>
    /\ tracker0 = <<>>
    /\ appender = <<>>
    /\ tracker_log = <<>>

\* no run toggles the shared ruleset
ToggleIdle ==
    /\ org_ruleset = WithoutRepositoryName
    /\ toggler = <<>>
    /\ serialized = TRUE

\* no name is being derived
NameIdle ==
    /\ request = <<>>
    /\ derived = <<>>

\* no child process is being driven
StreamIdle ==
    /\ child = <<>>
    /\ pipes = <<>>
    /\ driver = <<>>

Init ==
    /\ status = "init"
    /\ ip = 1
    /\ sub = 0
    /\ args \in ArgCases
    /\ BB_REPO_NAME = args.BB_REPO_NAME
    /\ GH_NEW_REPO_NAME = None
    /\ EXPORT_ARCHIVE_FILE_PATH = None
    /\ rulesets \in InitialRulesets(InFlight(args))
    /\ rulesets0 = rulesets
    /\ ledger = <<>>
    /\ staged = FALSE
    /\ calls = <<>>
    /\ finished = <<>>
    /\ api = <<>>
    /\ effects = <<>>
    /\ writes = <<>>
    /\ faults = 0
    /\ TrackerIdle
    /\ ToggleIdle
    /\ NameIdle
    /\ StreamIdle

---------------------------------------------------------------------------
(* run_migration: the statements of the controller, in program order *)

Stmt(fn, arg) == [fn |-> fn, arg |-> arg]

webhook_statements(PIPELINE_TYPE) ==
    IF PIPELINE_TYPE = "Platform_Jenkins" \/ PIPELINE_TYPE = "Old_Jenkins"
    THEN <<Stmt("update_repository_webhook", PIPELINE_TYPE)>>
    ELSE IF PIPELINE_TYPE = "Both_Jenkins"
         THEN <<Stmt("update_repository_webhook", "Platform_Jenkins"),
                Stmt("update_repository_webhook", "Old_Jenkins")>>
         ELSE <<>>

\* the steps in the order of the configurator's table: environments before topics
post_migration_tasks_table_order(PIPELINE_TYPE) ==
    <<Stmt("update_org_repository", ""),
      Stmt("create_status_file_in_repo", ""),
      Stmt("update_repo_properties", ""),
      Stmt("update_or_create_enviroments", ""),
      Stmt("update_org_repository_topics", ""),
      Stmt("update_org_repository_access", ""),
      Stmt("create_codeowners_in_repo", "")>>
    \o webhook_statements(PIPELINE_TYPE)
    \o <<Stmt("update_migration_tracker", ""),
         Stmt("remove_repo_admin", "")>>

post_migration_tasks(PIPELINE_TYPE) ==
    <<Stmt("update_org_repository", ""),
      Stmt("create_status_file_in_repo", ""),
      Stmt("update_repo_properties", ""),
      Stmt("update_org_repository_topics", ""),
      Stmt("update_org_repository_access", ""),
      Stmt("create_codeowners_in_repo", ""),
      Stmt("update_or_create_enviroments", "")>>
    \o webhook_statements(PIPELINE_TYPE)
    \o <<Stmt("update_migration_tracker", ""),
         Stmt("remove_repo_admin", "")>>

\* run_migration with the import started before the exclusion is added
run_migration_import_first(PIPELINE_TYPE) ==
    <<Stmt("set_migration_prequisite", ""),
      Stmt("validate", ""),
      Stmt("get_new_repo_name", ""),
      Stmt("run_export_archive", ""),
      Stmt("scp_command", ""),
      Stmt("run_import_archive", ""),
      Stmt("repo_name_to_exclusion_ruleset", "add"),
      Stmt("sleep", "")>>
    \o post_migration_tasks(PIPELINE_TYPE)
    \o <<Stmt("repo_name_to_exclusion_ruleset", "remove")>>

\* run_migration with the exclusion removed before the legacy admin is removed
run_migration_release_early(PIPELINE_TYPE) ==
    <<Stmt("set_migration_prequisite", ""),
      Stmt("validate", ""),
      Stmt("get_new_repo_name", ""),
      Stmt("run_export_archive", ""),
      Stmt("scp_command", ""),
      Stmt("repo_name_to_exclusion_ruleset", "add"),
      Stmt("run_import_archive", ""),
      Stmt("sleep", "")>>
    \o SubSeq(post_migration_tasks(PIPELINE_TYPE), 1, Len(post_migration_tasks(PIPELINE_TYPE)) - 1)
    \o <<Stmt("repo_name_to_exclusion_ruleset", "remove"), Stmt("remove_repo_admin", "")>>

\* run_migration with the repository metadata updated before the export
run_migration_metadata_first(PIPELINE_TYPE) ==
    <<Stmt("set_migration_prequisite", ""),
      Stmt("validate", ""),
      Stmt("get_new_repo_name", ""),
      Stmt("update_org_repository", ""),
      Stmt("run_export_archive", ""),
      Stmt("scp_command", ""),
      Stmt("repo_name_to_exclusion_ruleset", "add"),
      Stmt("run_import_archive", ""),
      Stmt("sleep", "")>>
    \o SubSeq(post_migration_tasks(PIPELINE_TYPE), 2, Len(post_migration_tasks(PIPELINE_TYPE)))
    \o <<Stmt("repo_name_to_exclusion_ruleset", "remove")>>

run_migration(PIPELINE_TYPE) ==
    <<Stmt("set_migration_prequisite", ""),
      Stmt("validate", ""),
      Stmt("get_new_repo_name", ""),
      Stmt("run_export_archive", ""),
      Stmt("scp_command", ""),
      Stmt("repo_name_to_exclusion_ruleset", "add"),
      Stmt("run_import_archive", ""),
      Stmt("sleep", "")>>
    \o post_migration_tasks(PIPELINE_TYPE)
    \o <<Stmt("repo_name_to_exclusion_ruleset", "remove")>>

Program == run_migration(args.PIPELINE_TYPE)

Cur == Program[ip]

At(fn) == status = "running" /\ ip <= Len(Program) /\ Cur.fn = fn

\* the current statement starts
Started == calls' = Append(calls, Cur)

\* the current statement returns to run_migration
Return ==
    /\ finished' = Append(finished, Cur)
    /\ ip' = ip + 1
    /\ status' = IF ip = Len(Program) THEN "done" ELSE "running"

\* the process ends inside the current statement: how is "exited", "crashed" or "blocked"
Stop(how) ==
    /\ status' = how
    /\ UNCHANGED <<ip, finished>>

\* k more requests are refused or child processes fail
Fault(k) == faults + k <= MaxFaults /\ faults' = faults + k

Bit(b) == IF b THEN 0 ELSE 1

Req(fn, call, item, ok) == [fn |-> fn, call |-> call, item |-> item, ok |-> ok]

---------------------------------------------------------------------------
(* Steps before the import window *)

process_input ==
    /\ status = "init"
    /\ BB_REPO_NAME' = normalize(args.BB_REPO_NAME)
    /\ status' = "running"
    /\ UNCHANGED <<ip, sub, args, aux, GH_NEW_REPO_NAME, EXPORT_ARCHIVE_FILE_PATH, rulesets, rulesets0,
                   ledger, staged, calls, finished, api, effects, writes, faults>>

set_migration_prequisite ==
    /\ At("set_migration_prequisite")
    /\ Started
    /\ \E env_set \in BOOLEAN :
        /\ Fault(Bit(env_set))
        /\ IF env_set THEN Return ELSE Stop("crashed")
    /\ UNCHANGED <<sub, args, aux, BB_REPO_NAME, GH_NEW_REPO_NAME, EXPORT_ARCHIVE_FILE_PATH, rulesets,
                   rulesets0, ledger, staged, api, effects, writes>>

\* the answers of the project registry: found, not found (count = 0), no answer of status 200
RegistryAnswers == {"200 count>0", "200 count=0", "non-200"}

\* a check of the status code alone
project_valid_by_status(answer) == answer # "non-200"

\* line 87
project_valid(answer) == answer = "200 count>0"

\* the team lookups of a validate that goes through all roles before it decides
team_lookups_all(existing) ==
    [i \in 1..Len(roles) |-> Req("validate", "team", roles[i], roles[i] \in existing)]

\* the team lookups validate issues when the teams of `existing` exist: up to the first missing one
team_lookups(existing) ==
    LET missing == {i \in 1..Len(roles) : roles[i] \notin existing}
        n == IF missing = {} THEN Len(roles)
             ELSE CHOOSE i \in missing : \A j \in missing : i <= j
    IN  [i \in 1..n |-> Req("validate", "team", roles[i], roles[i] \in existing)]

validate ==
    /\ At("validate")
    /\ Started
    /\ \E answer \in RegistryAnswers, existing \in SUBSET {roles[i] : i \in 1..Len(roles)} :
        IF ~project_valid(answer)
        THEN /\ Fault(1)
             /\ api' = Append(api, Req("validate", "project", answer, FALSE))
             /\ Stop("exited")
        ELSE /\ Fault(Len(roles) - Cardinality(existing))
             /\ api' = Append(api, Req("validate", "project", answer, TRUE)) \o team_lookups(existing)
             /\ IF \A i \in 1..Len(roles) : roles[i] \in existing
                THEN Return
                ELSE Stop("exited")
    /\ UNCHANGED <<sub, args, aux, BB_REPO_NAME, GH_NEW_REPO_NAME, EXPORT_ARCHIVE_FILE_PATH, rulesets,
                   rulesets0, ledger, staged, effects, writes>>

resolve_name ==
    /\ At("get_new_repo_name")
    /\ Started
    /\ GH_NEW_REPO_NAME' = get_new_repo_name(args.GH_ORG_NAME, BB_REPO_NAME, args.PROJECT_CODE,
                                             args.USER_DEFINED_NAME)
    /\ Return
    /\ UNCHANGED faults
    /\ UNCHANGED <<sub, args, aux, BB_REPO_NAME, EXPORT_ARCHIVE_FILE_PATH, rulesets, rulesets0, ledger,
                   staged, api, effects, writes>>

\* what the child process wrote to its error stream: nothing, something the pipe
\* buffer holds, or more than the pipe buffer holds while nobody reads it
StderrCases == {"empty", "fits", "exceeds_pipe"}

\* a driver that looks at nothing but the end of the standard output
child_outcome_ignoring_stderr(stderr) ==
    IF stderr = "exceeds_pipe" THEN "blocked" ELSE "returns"

\* how a driver of a child process ends (lines 152-180 and 222-240): the loop reads
\* the standard output only, the error stream is read after the loop
child_outcome(stderr) ==
    IF stderr = "exceeds_pipe" THEN "blocked"
    ELSE IF stderr = "fits" THEN "exited"
    ELSE "returns"

run_export_archive ==
    /\ At("run_export_archive")
    /\ Started
    /\ \E stderr \in StderrCases, exit_code \in {0, 1}, marker \in BOOLEAN :
        /\ Fault(Bit(stderr = "empty" /\ exit_code = 0 /\ marker))
        /\ api' = Append(api, Req("run_export_archive", "process", stderr, exit_code = 0))
        /\ IF child_outcome(stderr) = "returns"
           THEN /\ EXPORT_ARCHIVE_FILE_PATH' = IF marker THEN ARCHIVE ELSE None
                /\ Return
           ELSE /\ Stop(child_outcome(stderr))
                /\ UNCHANGED EXPORT_ARCHIVE_FILE_PATH
    /\ UNCHANGED <<sub, args, aux, BB_REPO_NAME, GH_NEW_REPO_NAME, rulesets, rulesets0, ledger, staged,
                   effects, writes>>

\* the staged file deleted before it was transferred
download_commands_delete_first == <<"stage", "delete", "transfer">>

\* lines 206-208
download_commands == <<"stage", "transfer", "delete">>

\* a download that builds its commands from whatever the export returned
scp_command_any_path ==
    /\ At("scp_command")
    /\ Started
    /\ \E failing \in 0..Len(download_commands), left_behind \in BOOLEAN :
         LET n == IF failing = 0 THEN Len(download_commands) ELSE failing
         IN  /\ Fault(Bit(failing = 0))
             /\ api' = api \o [i \in 1..n |->
                                 Req("scp_command", "run_command", download_commands[i], i # failing)]
             /\ staged' = IF failing = 1 THEN left_behind
                          ELSE IF failing = 0 THEN FALSE
                          ELSE TRUE
             /\ IF failing = 0 THEN Return ELSE Stop("crashed")
    /\ UNCHANGED <<sub, args, aux, BB_REPO_NAME, GH_NEW_REPO_NAME, EXPORT_ARCHIVE_FILE_PATH, rulesets,
                   rulesets0, ledger, effects, writes>>

scp_command ==
    /\ At("scp_command")
    /\ Started
    /\ IF EXPORT_ARCHIVE_FILE_PATH = None
       THEN \* None.split raises AttributeError before the first command
            /\ Stop("crashed")
            /\ UNCHANGED <<api, staged, faults>>
       ELSE \E failing \in 0..Len(download_commands), left_behind \in BOOLEAN :
            LET n == IF failing = 0 THEN Len(download_commands) ELSE failing
            IN  /\ Fault(Bit(failing = 0))
                /\ api' = api \o [i \in 1..n |->
                                    Req("scp_command", "run_command", download_commands[i], i # failing)]
                /\ staged' = IF failing = 1 THEN left_behind
                             ELSE IF failing = 0 THEN FALSE
                             ELSE TRUE
                /\ IF failing = 0 THEN Return ELSE Stop("crashed")
    /\ UNCHANGED <<sub, args, aux, BB_REPO_NAME, GH_NEW_REPO_NAME, EXPORT_ARCHIVE_FILE_PATH, rulesets,
                   rulesets0, ledger, effects, writes>>

---------------------------------------------------------------------------
(* Ruleset guard: repo_name_to_exclusion_ruleset and update_ruleset *)

\* list.remove(x): drops the first element equal to x
RemoveFirst(s, x) ==
    LET i == CHOOSE k \in 1..Len(s) : s[k] = x /\ \A j \in 1..(k - 1) : s[j] # x
    IN  SubSeq(s, 1, i - 1) \o SubSeq(s, i + 1, Len(s))

Occurs(x, s) == \E i \in 1..Len(s) : s[i] = x

\* a removal that leaves the list alone when the name is not in it
remove_never_raises(exclude, repo_name) == FALSE

\* line 643: list.remove raises ValueError when the name is not in the list
remove_raises(exclude, repo_name) == ~Occurs(repo_name, exclude)

\* an 'add' that sends the conditions back as they were read
add_exclusion_unchanged(conditions, repo_name) == conditions

\* lines 635-636
add_exclusion(conditions, repo_name) ==
    [conditions EXCEPT !.repository_name.exclude = Append(@, repo_name)]

\* the removal without the catch-all of line 646
remove_exclusion_no_marker(conditions, repo_name) ==
    [conditions EXCEPT !.repository_name.exclude = RemoveFirst(@, repo_name)]

\* lines 643-646, for a list that holds repo_name
remove_exclusion(conditions, repo_name) ==
    LET exclude == RemoveFirst(conditions.repository_name.exclude, repo_name)
        include == conditions.repository_name.include
    IN  [conditions EXCEPT !.repository_name.exclude = exclude,
                           !.repository_name.include =
                               IF exclude = <<>> /\ include = <<>> THEN Append(include, ALL) ELSE include]

\* an update_ruleset whose request does not carry the conditions
update_ruleset_dropped(rs, existing_ruleset_id, conditions) == rs

\* the PUT of update_ruleset, accepted by the platform
update_ruleset(rs, existing_ruleset_id, conditions) ==
    [rs EXCEPT ![existing_ruleset_id].conditions = conditions]

\* line 624: the id of the first listed ruleset of that name
ruleset_id(existing_rulesets, ruleset_name) ==
    existing_rulesets[CHOOSE i \in 1..Len(existing_rulesets) :
                        /\ existing_rulesets[i].name = ruleset_name
                        /\ \A j \in 1..(i - 1) : existing_rulesets[j].name # ruleset_name].id

\* a guard that lets every listed ruleset through
is_managed_any(ruleset_name) == TRUE

\* the guard of line 622
is_managed(ruleset_name) == ruleset_name \in ManagedRulesetNames

\* the status codes the platform answers a ruleset request with
StatusCodes == {200, 201, 204, 404}

\* a check that takes every 2xx answer for a success
status_ok_2xx(status_code) == status_code >= 200 /\ status_code < 300

\* lines 602, 612 and 628: status_code not in [200, 201] ends the process
status_ok(status_code) == status_code \in {200, 201}

\* the platform has carried out a request it answers with a 2xx code
carried_out(status_code) == status_code >= 200 /\ status_code < 300

\* a ruleset request with the status code of its answer
Resp(fn, call, item, status_code) ==
    [fn |-> fn, call |-> call, item |-> item, ok |-> status_ok(status_code), code |-> status_code]

\* an answer other than the plain 200 counts as one of the run's faults
Unusual(status_code) == IF status_code = 200 THEN 0 ELSE 1

\* the loop of lines 619-650 moves to the next listed ruleset, or returns after the last
NextRuleset ==
    IF sub = Len(rulesets)
    THEN Return /\ sub' = 0
    ELSE sub' = sub + 1 /\ UNCHANGED <<status, ip, finished>>

\* lines 610-616: the list read
ruleset_list ==
    /\ At("repo_name_to_exclusion_ruleset")
    /\ sub = 0
    /\ Started
    /\ \E status_code \in StatusCodes :
        /\ Fault(Unusual(status_code))
        /\ api' = Append(api, Resp("repo_name_to_exclusion_ruleset", "list", Cur.arg, status_code))
        /\ IF ~status_ok(status_code) THEN Stop("exited") /\ UNCHANGED sub
           ELSE IF Len(rulesets) = 0 THEN Return /\ UNCHANGED sub
           ELSE sub' = 1 /\ UNCHANGED <<status, ip, finished>>
    /\ UNCHANGED <<args, aux, BB_REPO_NAME, GH_NEW_REPO_NAME, EXPORT_ARCHIVE_FILE_PATH, rulesets, rulesets0,
                   ledger, staged, effects, writes>>

\* lines 619-650: one iteration of the loop over the listed rulesets
ruleset_toggle ==
    /\ At("repo_name_to_exclusion_ruleset")
    /\ sub >= 1
    /\ LET action == Cur.arg
           ruleset_name == rulesets[sub].name
           existing_ruleset_id == ruleset_id(rulesets, ruleset_name)
           condition == rulesets[existing_ruleset_id].conditions
           has_repository_name == "repository_name" \in DOMAIN condition
           read(code) == Resp("repo_name_to_exclusion_ruleset", "read", ruleset_name, code)
           write(code) == Resp("update_ruleset", "write", ruleset_name, code)
           put(new, read_code, write_code) ==
               /\ Fault(Unusual(read_code) + Unusual(write_code))
               /\ api' = api \o <<read(read_code), write(write_code)>>
               /\ writes' = Append(writes, [action |-> action, name |-> ruleset_name, read |-> condition,
                                            written |-> new, ok |-> status_ok(write_code)])
               /\ rulesets' = IF carried_out(write_code)
                               THEN update_ruleset(rulesets, existing_ruleset_id, new)
                               ELSE rulesets
               /\ IF status_ok(write_code)
                  THEN NextRuleset
                  ELSE Stop("exited") /\ UNCHANGED sub
       IN  IF ~is_managed(ruleset_name)
           THEN NextRuleset /\ UNCHANGED <<api, writes, rulesets, faults>>
           ELSE \E read_code \in StatusCodes, write_code \in StatusCodes :
                IF ~status_ok(read_code)
                THEN /\ Fault(1)
                     /\ api' = Append(api, read(read_code))
                     /\ Stop("exited")
                     /\ UNCHANGED <<writes, rulesets, sub>>
                ELSE IF action = "add" /\ has_repository_name
                THEN put(add_exclusion(condition, GH_NEW_REPO_NAME), read_code, write_code)
                ELSE IF action = "remove" /\ has_repository_name
                THEN IF ~remove_raises(condition.repository_name.exclude, GH_NEW_REPO_NAME)
                     THEN put(remove_exclusion(condition, GH_NEW_REPO_NAME), read_code, write_code)
                     ELSE \* list.remove raises ValueError
                          /\ Fault(Unusual(read_code))
                          /\ api' = Append(api, read(read_code))
                          /\ Stop("crashed")
                          /\ UNCHANGED <<writes, rulesets, sub>>
                ELSE /\ Fault(Unusual(read_code))
                     /\ api' = Append(api, read(read_code))
                     /\ NextRuleset
                     /\ UNCHANGED <<writes, rulesets>>
    /\ UNCHANGED <<args, aux, BB_REPO_NAME, GH_NEW_REPO_NAME, EXPORT_ARCHIVE_FILE_PATH, rulesets0, ledger,
                   staged, calls, effects>>

---------------------------------------------------------------------------
(* Import and the post-migration steps *)

Eff(fn, item) == [fn |-> fn, item |-> item]

run_import_archive ==
    /\ At("run_import_archive")
    /\ Started
    /\ \E stderr \in StderrCases, exit_code \in {0, 1} :
        /\ Fault(Bit(stderr = "empty" /\ exit_code = 0))
        /\ api' = Append(api, Req("run_import_archive", "process", stderr, exit_code = 0))
        /\ IF child_outcome(stderr) = "returns"
           THEN /\ effects' = Append(effects, Eff("run_import_archive", ""))
                /\ Return
           ELSE /\ Stop(child_outcome(stderr))
                /\ UNCHANGED effects
    /\ UNCHANGED <<sub, args, aux, BB_REPO_NAME, GH_NEW_REPO_NAME, EXPORT_ARCHIVE_FILE_PATH, rulesets,
                   rulesets0, ledger, staged, writes>>

sleep ==
    /\ At("sleep")
    /\ Started
    /\ Return
    /\ UNCHANGED <<sub, args, aux, BB_REPO_NAME, GH_NEW_REPO_NAME, EXPORT_ARCHIVE_FILE_PATH, rulesets,
                   rulesets0, ledger, staged, api, effects, writes, faults>>

\* every refusal only logged
on_failure_logged(fn) == "logged"

\* what a step does when its request was refused: sys.exit(1) in the three steps
\* that end the process, a log line in the others
on_failure(fn) ==
    IF fn \in {"update_org_repository", "update_org_repository_access", "remove_repo_admin"}
    THEN "exited"
    ELSE "logged"

\* a step that issues one request and looks at its status code
single_request(fn) ==
    /\ At(fn)
    /\ Started
    /\ \E ok \in BOOLEAN :
        /\ Fault(Bit(ok))
        /\ api' = Append(api, Req(fn, "request", Cur.arg, ok))
        /\ effects' = IF ok THEN Append(effects, Eff(fn, Cur.arg)) ELSE effects
        /\ IF ok \/ on_failure(fn) = "logged" THEN Return ELSE Stop(on_failure(fn))
    /\ UNCHANGED <<sub, args, aux, BB_REPO_NAME, GH_NEW_REPO_NAME, EXPORT_ARCHIVE_FILE_PATH, rulesets,
                   rulesets0, ledger, staged, writes>>

update_org_repository ==
    /\ At("update_org_repository")
    /\ Started
    /\ \E details_found \in BOOLEAN, ok \in BOOLEAN :
        IF ~details_found
        THEN \* get_project_details returns None and None.get raises AttributeError
             /\ Fault(1)
             /\ api' = Append(api, Req("update_org_repository", "get_project_details", "", FALSE))
             /\ Stop("crashed")
             /\ UNCHANGED effects
        ELSE /\ Fault(Bit(ok))
             /\ api' = api \o <<Req("update_org_repository", "get_project_details", "", TRUE),
                                Req("update_org_repository", "request", "", ok)>>
             /\ effects' = IF ok THEN Append(effects, Eff("update_org_repository", "")) ELSE effects
             /\ IF ok THEN Return ELSE Stop(on_failure("update_org_repository"))
    /\ UNCHANGED <<sub, args, aux, BB_REPO_NAME, GH_NEW_REPO_NAME, EXPORT_ARCHIVE_FILE_PATH, rulesets,
                   rulesets0, ledger, staged, writes>>

create_status_file_in_repo == single_request("create_status_file_in_repo")

update_repo_properties == single_request("update_repo_properties")

update_org_repository_topics == single_request("update_org_repository_topics")

update_org_repository_access ==
    /\ At("update_org_repository_access")
    /\ Started
    /\ \E failing \in 0..Len(roles) :
        LET n == IF failing = 0 THEN Len(roles) ELSE failing
            granted == IF failing = 0 THEN Len(roles) ELSE failing - 1
        IN  /\ Fault(Bit(failing = 0))
            /\ api' = api \o [i \in 1..n |->
                                Req("update_org_repository_access", "request", roles[i], i # failing)]
            /\ effects' = effects \o [i \in 1..granted |-> Eff("update_org_repository_access", roles[i])]
            /\ IF failing = 0 THEN Return ELSE Stop(on_failure("update_org_repository_access"))
    /\ UNCHANGED <<sub, args, aux, BB_REPO_NAME, GH_NEW_REPO_NAME, EXPORT_ARCHIVE_FILE_PATH, rulesets,
                   rulesets0, ledger, staged, writes>>

create_codeowners_in_repo == single_request("create_codeowners_in_repo")

environment_requests == <<"production", "main", "master">>

update_or_create_enviroments ==
    /\ At("update_or_create_enviroments")
    /\ Started
    /\ \E team_found \in BOOLEAN, accepted \in SUBSET (1..Len(environment_requests)) :
        IF ~team_found
        THEN \* team_id stays unbound and line 435 raises UnboundLocalError
             /\ Fault(1)
             /\ api' = Append(api, Req("update_or_create_enviroments", "get_team", "Managers", FALSE))
             /\ Stop("crashed")
             /\ UNCHANGED effects
        ELSE /\ Fault(Len(environment_requests) - Cardinality(accepted))
             /\ api' = Append(api, Req("update_or_create_enviroments", "get_team", "Managers", TRUE))
                       \o [i \in 1..Len(environment_requests) |->
                             Req("update_or_create_enviroments", "request", environment_requests[i],
                                 i \in accepted)]
             /\ effects' = effects \o SelectSeq(
                               [i \in 1..Len(environment_requests) |->
                                   Eff("update_or_create_enviroments", environment_requests[i])],
                               LAMBDA e : \E i \in accepted : environment_requests[i] = e.item)
             /\ Return
    /\ UNCHANGED <<sub, args, aux, BB_REPO_NAME, GH_NEW_REPO_NAME, EXPORT_ARCHIVE_FILE_PATH, rulesets,
                   rulesets0, ledger, staged, writes>>

update_repository_webhook == single_request("update_repository_webhook")

update_migration_tracker ==
    /\ At("update_migration_tracker")
    /\ Started
    /\ \E read_ok \in BOOLEAN, write_ok \in BOOLEAN :
        IF ~read_ok
        THEN \* content stays unbound and line 677 raises UnboundLocalError
             /\ Fault(1)
             /\ api' = Append(api, Req("update_migration_tracker", "read", "", FALSE))
             /\ Stop("crashed")
             /\ UNCHANGED <<effects, ledger>>
        ELSE LET content == ledger
                 additional_content == [source |-> BB_REPO_NAME, destination |-> GH_NEW_REPO_NAME]
             IN  /\ Fault(Bit(write_ok))
                 /\ api' = api \o <<Req("update_migration_tracker", "read", "", TRUE),
                                    Req("update_migration_tracker", "request", "", write_ok)>>
                 /\ ledger' = IF write_ok THEN Append(content, additional_content) ELSE ledger
                 /\ effects' = IF write_ok THEN Append(effects, Eff("update_migration_tracker", ""))
                               ELSE effects
                 /\ Return
    /\ UNCHANGED <<sub, args, aux, BB_REPO_NAME, GH_NEW_REPO_NAME, EXPORT_ARCHIVE_FILE_PATH, rulesets,
                   rulesets0, staged, writes>>

remove_repo_admin == single_request("remove_repo_admin")

---------------------------------------------------------------------------
(* The specification *)

Next ==
    \/ process_input
    \/ set_migration_prequisite
    \/ validate
    \/ resolve_name
    \/ run_export_archive
    \/ scp_command
    \/ ruleset_list
    \/ ruleset_toggle
    \/ run_import_archive
    \/ sleep
    \/ update_org_repository
    \/ create_status_file_in_repo
    \/ update_repo_properties
    \/ update_org_repository_topics
    \/ update_org_repository_access
    \/ create_codeowners_in_repo
    \/ update_or_create_enviroments
    \/ update_repository_webhook
    \/ update_migration_tracker
    \/ remove_repo_admin

Spec == Init /\ [][Next]_vars

---------------------------------------------------------------------------
(* Vocabulary of the properties *)

AddStmt == Stmt("repo_name_to_exclusion_ruleset", "add")

RemoveStmt == Stmt("repo_name_to_exclusion_ruleset", "remove")

PostMigrationFns ==
    {"update_org_repository", "create_status_file_in_repo", "update_repo_properties",
     "update_org_repository_topics", "update_org_repository_access", "create_codeowners_in_repo",
     "update_or_create_enviroments", "update_repository_webhook", "update_migration_tracker",
     "remove_repo_admin"}

FatalPostFns == {"update_org_repository", "update_org_repository_access", "remove_repo_admin"}

Terminated == status \in {"done", "exited", "crashed"}

\* every request and child process of the run so far reported success
AllSucceeded == \A i \in 1..Len(api) : api[i].ok

Index(x, s) == CHOOSE i \in 1..Len(s) : s[i] = x

Fns(s) == [i \in 1..Len(s) |-> s[i].fn]

\* the post-migration statements that returned, in order
PostFinished == SelectSeq(finished, LAMBDA st : st.fn \in PostMigrationFns)

\* the rulesets the guard toggles: on the list of line 622 and with a repository_name condition
Toggled(i) ==
    /\ is_managed(rulesets[i].name)
    /\ "repository_name" \in DOMAIN rulesets[i].conditions

\* the import window: 'add' has returned and 'remove' has not started
InWindow == Occurs(AddStmt, finished) /\ ~Occurs(RemoveStmt, calls)

---------------------------------------------------------------------------
(* C1 *)

\* C1: whenever the process has terminated and the 'add' toggle had completed, the
\* 'remove' toggle was called before the termination.
C1_GuaranteedRelease ==
    (Terminated /\ Occurs(AddStmt, finished)) => Occurs(RemoveStmt, calls)

---------------------------------------------------------------------------
(* C2 *)

\* C2: a statement of the controller starts only after the previous one has returned,
\* and a run in which every step succeeded has executed validate, the name
\* resolution, export, download, 'add', import, the settle delay, the
\* post-migration steps and 'remove', in this order.
C2_FixedOrder ==
    /\ Len(finished) <= Len(calls)
    /\ Len(calls) <= Len(finished) + 1
    /\ SubSeq(calls, 1, Len(finished)) = finished
    /\ (status = "done" /\ AllSucceeded) =>
         LET n == Len(calls)
         IN  /\ finished = calls
             /\ n > 9
             /\ SubSeq(calls, 2, 8) =
                  <<Stmt("validate", ""), Stmt("get_new_repo_name", ""), Stmt("run_export_archive", ""),
                    Stmt("scp_command", ""), AddStmt, Stmt("run_import_archive", ""), Stmt("sleep", "")>>
             /\ \A i \in 9..(n - 1) : calls[i].fn \in PostMigrationFns
             /\ calls[1].fn \notin PostMigrationFns
             /\ calls[n] = RemoveStmt

C2_Witness ==
    /\ status = "done"
    /\ AllSucceeded
    /\ args.PIPELINE_TYPE = "Both_Jenkins"
    /\ Len(calls) > 9

---------------------------------------------------------------------------
(* C3 *)

RECURSIVE Collapse(_)
\* s without the repetitions of an element that directly follow it
Collapse(s) ==
    IF Len(s) <= 1 THEN s
    ELSE IF s[1] = s[2] THEN Collapse(Tail(s))
    ELSE <<s[1]>> \o Collapse(Tail(s))

\* the order of the table of the post-migration configurator
TableOrder ==
    <<"update_org_repository", "create_status_file_in_repo", "update_repo_properties",
      "update_or_create_enviroments", "update_org_repository_topics", "update_org_repository_access",
      "create_codeowners_in_repo", "update_repository_webhook", "update_migration_tracker",
      "remove_repo_admin">>

ExpectedWebhooks(PIPELINE_TYPE) ==
    CASE PIPELINE_TYPE = "Platform_Jenkins" -> <<"Platform_Jenkins">>
      [] PIPELINE_TYPE = "Old_Jenkins" -> <<"Old_Jenkins">>
      [] PIPELINE_TYPE = "Both_Jenkins" -> <<"Platform_Jenkins", "Old_Jenkins">>
      [] OTHER -> <<>>

---------------------------------------------------------------------------
(* C4 *)

MutatingFns == PostMigrationFns \cup {"run_import_archive"}

\* C4: a completed run called the toggle once with 'add', directly before the
\* import, and once with 'remove', directly after the last post-migration step
\* (remove_repo_admin); and in every run the import and the post-migration steps
\* start, and the destination repository changes, only inside the import window.
C4_Bracketing ==
    /\ [](status = "done" =>
            /\ Count(AddStmt, calls) = 1
            /\ Count(RemoveStmt, calls) = 1
            /\ Count(Stmt("run_import_archive", ""), calls) = 1
            /\ Index(Stmt("run_import_archive", ""), calls) = Index(AddStmt, calls) + 1
            /\ Index(RemoveStmt, calls) = Len(calls)
            /\ calls[Len(calls) - 1] = Stmt("remove_repo_admin", "")
            /\ \A i \in 1..Len(calls) :
                 calls[i].fn \in MutatingFns =>
                    Index(AddStmt, calls) < i /\ i < Index(RemoveStmt, calls))
    /\ [][(effects' # effects \/ (calls' # calls /\ Last(calls').fn \in MutatingFns))
             => (InWindow /\ ~Occurs(RemoveStmt, calls'))]_vars

C4_Witness ==
    /\ status = "done"
    /\ Count(AddStmt, calls) = 1
    /\ Count(RemoveStmt, calls) = 1
    /\ Len(effects) > 10
    /\ faults = MaxFaults

---------------------------------------------------------------------------
(* C5 *)

\* C5: every toggled ruleset holds the in-flight repository name exactly once in
\* its exclude list during the import window and not at all once 'remove' has
\* returned, whatever the exclude list held when the run started.
C5_ExactlyOneEntry ==
    \A i \in 1..Len(rulesets) :
        Toggled(i) =>
            LET n == Count(GH_NEW_REPO_NAME, rulesets[i].conditions.repository_name.exclude)
            IN  /\ InWindow => n = 1
                /\ Occurs(RemoveStmt, finished) => n = 0

---------------------------------------------------------------------------
(* C6 *)

\* C6: after 'add' and 'remove' have both been applied, every toggled ruleset has
\* the condition object it had at the start, or include = ["~ALL"] and an empty
\* exclude when both lists were empty at the start.
C6_RoundTrip ==
    Occurs(RemoveStmt, finished) =>
        \A i \in 1..Len(rulesets) :
            Toggled(i) =>
                LET before == rulesets0[i].conditions
                    after == rulesets[i].conditions
                IN  IF before.repository_name.include = <<>> /\ before.repository_name.exclude = <<>>
                    THEN after = [before EXCEPT !.repository_name.include = <<ALL>>]
                    ELSE after = before

---------------------------------------------------------------------------
(* C7 *)

\* C7: no write of a 'remove' toggle carries a condition whose include and exclude
\* are both empty; the write carries the include list that was read with "~ALL"
\* appended exactly when the removal emptied the exclude list and the include list
\* read was empty, and the include list as read in every other write ('add' too).
C7_CatchAll ==
    \A k \in 1..Len(writes) :
        LET w == writes[k]
            read == w.read.repository_name
            written == w.written.repository_name
        IN  /\ w.action = "remove" =>
                 /\ ~(written.include = <<>> /\ written.exclude = <<>>)
                 /\ written.exclude = RemoveFirst(read.exclude, GH_NEW_REPO_NAME)
                 /\ written.include =
                      IF written.exclude = <<>> /\ read.include = <<>> THEN <<ALL>> ELSE read.include
            /\ w.action = "add" => written.include = read.include

\* the remove of the one excluded name from a ruleset without include patterns
C7_Witness ==
    \E k \in 1..Len(writes) :
        /\ writes[k].action = "remove"
        /\ writes[k].ok
        /\ writes[k].read.repository_name = [include |-> <<>>, exclude |-> <<GH_NEW_REPO_NAME>>]
        /\ writes[k].written.repository_name = [include |-> <<ALL>>, exclude |-> <<>>]
        /\ rulesets[1].conditions.repository_name = [include |-> <<ALL>>, exclude |-> <<>>]

---------------------------------------------------------------------------
(* C8 *)

\* the effect a successful request of a mutating step leaves on the destination
EffectOf(r) == Eff(r.fn, r.item)

\* C8: once a request of update_org_repository, update_org_repository_access or
\* remove_repo_admin has failed, the process has ended, that request is the last
\* one the run issued, the failing step is the last statement started and never
\* returned, and every effect applied before it is still in place.
C8_FatalPostSteps ==
    \A i \in 1..Len(api) :
        (api[i].fn \in FatalPostFns /\ ~api[i].ok) =>
            /\ status \in {"exited", "crashed"}
            /\ i = Len(api)
            /\ Last(calls).fn = api[i].fn
            /\ Len(finished) = Len(calls) - 1
            /\ ~Occurs(RemoveStmt, calls)
            /\ writes = SelectSeq(writes, LAMBDA w : w.action = "add")
            /\ \A j \in 1..(i - 1) :
                 (api[j].fn \in MutatingFns /\ api[j].call \in {"request", "process"} /\ api[j].ok)
                    => Occurs(EffectOf([api[j] EXCEPT !.item = IF api[j].call = "process" THEN "" ELSE @]),
                              effects)

\* the grant to the second team is refused after the first was granted
C8_Witness ==
    /\ status = "exited"
    /\ Last(api) = Req("update_org_repository_access", "request", "Contributors", FALSE)
    /\ Last(effects) = Eff("update_org_repository_access", "Viewers")
    /\ Occurs(Eff("update_org_repository", ""), effects)

---------------------------------------------------------------------------
(* C9 *)

NonFatalPostFns == PostMigrationFns \ FatalPostFns

\* C9: a failing request of a non-fatal post-migration step (the team lookup of the
\* environments step and the read of the ledger included) does not end the run:
\* the step returns to the controller.
C9_LoggedAndContinue ==
    \A i \in 1..Len(api) :
        (api[i].fn \in NonFatalPostFns /\ ~api[i].ok) =>
            \E k \in 1..Len(finished) : finished[k].fn = api[i].fn

---------------------------------------------------------------------------
(* C10 *)

---------------------------------------------------------------------------
(* Two runs appending to the shared ledger file *)

\* the single run stands still while another scenario is explored
MainIdle ==
    /\ status = "init"
    /\ ip = 1
    /\ sub = 0
    /\ args = Args("Platform_Jenkins", NoneName)
    /\ BB_REPO_NAME = args.BB_REPO_NAME
    /\ GH_NEW_REPO_NAME = None
    /\ EXPORT_ARCHIVE_FILE_PATH = None
    /\ rulesets = <<>>
    /\ rulesets0 = <<>>
    /\ ledger = <<>>
    /\ staged = FALSE
    /\ calls = <<>>
    /\ finished = <<>>
    /\ api = <<>>
    /\ effects = <<>>
    /\ writes = <<>>
    /\ faults = 0

TrackerRuns == {1, 2}

\* the repository each of the two runs migrates
TrackerRepo == <<<<"a">>, <<"b">>>>

\* line 674: the row a run appends
additional_content(r) ==
    [source |-> TrackerRepo[r],
     destination |-> get_new_repo_name(<<"p", "r", "u", "-", "y">>, TrackerRepo[r], <<"x">>, NoneName)]

\* a row written by an earlier migration
EarlierRow == [source |-> <<"n">>, destination |-> <<"y", "-", "x", "-", "n">>]

\* file_info['sha']: the hash of a content, equal for equal contents only
blob_sha(content) == [blob |-> content]

InitLedger ==
    /\ MainIdle
    /\ ToggleIdle
    /\ NameIdle
    /\ StreamIdle
    /\ tracker0 \in {<<>>, <<EarlierRow>>}
    /\ migration_tracker = tracker0
    /\ appender = [r \in TrackerRuns |-> [pc |-> "update_migration_tracker", sha |-> None, content |-> None]]
    /\ tracker_log = <<>>

\* an answered request for the file: what was sent or returned, and the hash the file had
Answered(r, call, code, content, sha) ==
    [run |-> r, call |-> call, code |-> code, content |-> content, sha |-> sha,
     current |-> blob_sha(migration_tracker)]

\* lines 660-667: the read; on an answer other than 200 sha and content stay
\* unbound and line 677 raises UnboundLocalError
tracker_get(r) ==
    /\ appender[r].pc = "update_migration_tracker"
    /\ \E status_code \in {200, 404} :
        /\ tracker_log' = Append(tracker_log, Answered(r, "get", status_code, migration_tracker,
                                                       blob_sha(migration_tracker)))
        /\ appender' = [appender EXCEPT ![r] =
                          IF status_code = 200
                          THEN [pc |-> "put", sha |-> blob_sha(migration_tracker),
                                content |-> migration_tracker]
                          ELSE [@ EXCEPT !.pc = "crashed"]]
    /\ UNCHANGED <<main, stream_vars, toggle_vars, name_vars, migration_tracker, tracker0>>

\* a payload built with the hash the file has at the time of the write
payload_fresh_sha(r) ==
    [content |-> Append(appender[r].content, additional_content(r)),
     sha |-> blob_sha(migration_tracker)]

\* lines 677-686
payload(r) ==
    [content |-> Append(appender[r].content, additional_content(r)),
     sha |-> appender[r].sha]

\* the answers of the platform to a write: 409 when the hash sent is not the
\* file's, otherwise 200, or 500 when it fails for a reason of its own
put_answers(sent) ==
    IF sent.sha = blob_sha(migration_tracker) THEN {200, 500} ELSE {409}

\* a step that reads the file again after a refused write
after_put_retry(status_code) ==
    IF status_code = 200 THEN "remove_repo_admin" ELSE "update_migration_tracker"

\* lines 692-696: both branches only log, and the function returns to line 278
after_put(status_code) == "remove_repo_admin"

\* line 689 and the answer
tracker_put(r) ==
    /\ appender[r].pc = "put"
    /\ \E status_code \in put_answers(payload(r)) :
        /\ tracker_log' = Append(tracker_log, Answered(r, "put", status_code, payload(r).content,
                                                       payload(r).sha))
        /\ migration_tracker' = IF status_code = 200 THEN payload(r).content ELSE migration_tracker
        /\ appender' = [appender EXCEPT ![r].pc = after_put(status_code)]
    /\ UNCHANGED <<main, stream_vars, toggle_vars, name_vars, tracker0>>

\* line 278: the run goes on with remove_repo_admin
tracker_proceed(r) ==
    /\ appender[r].pc = "remove_repo_admin"
    /\ appender' = [appender EXCEPT ![r].pc = "done"]
    /\ UNCHANGED <<main, stream_vars, toggle_vars, name_vars, migration_tracker, tracker0, tracker_log>>

NextLedger ==
    \/ \E r \in TrackerRuns : tracker_get(r)
    \/ \E r \in TrackerRuns : tracker_put(r)
    \/ \E r \in TrackerRuns : tracker_proceed(r)

SpecLedger == InitLedger /\ [][NextLedger]_vars

---------------------------------------------------------------------------
(* Two runs toggling the same organization ruleset *)

TogglerRuns == {1, 2}

\* the destination names of the two runs
TogglerRepo == <<<<"y", "-", "x", "-", "a">>, <<"y", "-", "x", "-", "b">>>>

\* a run has ended: returned, sys.exit(1) or an uncaught exception
Ended(pc) == pc \in {"done", "exited", "crashed"}

\* the requests a run has not issued yet
NoRequests == [get |-> {}, put |-> {}]

\* the conditions of the two managed rulesets of the organization, in list order
InitToggle ==
    /\ MainIdle
    /\ TrackerIdle
    /\ NameIdle
    /\ StreamIdle
    /\ org_ruleset \in {<<WithRepositoryName(<<ALL>>, exc), WithRepositoryName(<<>>, <<>>)>> :
                          exc \in {<<>>, <<OTHER_REPO>>}}
    /\ toggler = [r \in TogglerRuns |->
                    [pc |-> "add_get", sub |-> 1, condition |-> None, issued |-> NoRequests]]
    /\ serialized \in BOOLEAN

\* run r has issued its first request
Begun(r) == toggler[r].issued # NoRequests

\* a run is started while another is under way only when nobody serializes them
may_start(r) ==
    serialized => \A o \in TogglerRuns \ {r} : ~Begun(o) \/ Ended(toggler[o].pc)

\* the toggle a position belongs to
toggle_action(pc) == IF pc \in {"add_get", "add_put"} THEN "add" ELSE "remove"

\* lines 626-632: the read of the conditions, in 'add' and in 'remove'
toggle_get(r) ==
    /\ toggler[r].pc \in {"add_get", "remove_get"}
    /\ ~Begun(r) => may_start(r)
    /\ \E status_code \in StatusCodes :
        LET t == toggler[r]
            read == [t EXCEPT !.condition = org_ruleset[t.sub],
                              !.issued.get = @ \cup {<<toggle_action(t.pc), t.sub>>}]
        IN  toggler' = [toggler EXCEPT ![r] =
                          IF ~status_ok(status_code)
                          THEN [t EXCEPT !.pc = "exited",
                                         !.issued.get = @ \cup {<<toggle_action(t.pc), t.sub>>}]
                          ELSE IF /\ t.pc = "remove_get"
                                  /\ remove_raises(org_ruleset[t.sub].repository_name.exclude, TogglerRepo[r])
                          THEN [read EXCEPT !.pc = "crashed"]
                          ELSE [read EXCEPT !.pc = IF t.pc = "add_get" THEN "add_put" ELSE "remove_put"]]
    /\ UNCHANGED <<main, stream_vars, tracker_vars, name_vars, org_ruleset, serialized>>

\* lines 635-637 and 643-647: the local change and the write of update_ruleset,
\* then the next ruleset of the list
toggle_put(r) ==
    /\ toggler[r].pc \in {"add_put", "remove_put"}
    /\ LET t == toggler[r]
           adding == t.pc = "add_put"
           new == IF adding THEN add_exclusion(t.condition, TogglerRepo[r])
                            ELSE remove_exclusion(t.condition, TogglerRepo[r])
           sent == [t EXCEPT !.issued.put = @ \cup {<<toggle_action(t.pc), t.sub>>}]
       IN  \E status_code \in StatusCodes :
            /\ org_ruleset' = IF carried_out(status_code)
                              THEN [org_ruleset EXCEPT ![t.sub] = new]
                              ELSE org_ruleset
            /\ toggler' = [toggler EXCEPT ![r] =
                             IF ~status_ok(status_code) THEN [sent EXCEPT !.pc = "exited"]
                             ELSE IF t.sub < Len(org_ruleset)
                             THEN [sent EXCEPT !.pc = IF adding THEN "add_get" ELSE "remove_get",
                                               !.sub = t.sub + 1]
                             ELSE [sent EXCEPT !.pc = IF adding THEN "import" ELSE "done",
                                               !.sub = 1]]
    /\ UNCHANGED <<main, stream_vars, tracker_vars, name_vars, serialized>>

\* lines 258-278: the import and the post-migration steps, between 'add' and 'remove'
toggle_window(r) ==
    /\ toggler[r].pc = "import"
    /\ \E survives \in BOOLEAN :
        toggler' = [toggler EXCEPT ![r].pc = IF survives THEN "remove_get" ELSE "exited"]
    /\ UNCHANGED <<main, stream_vars, tracker_vars, name_vars, org_ruleset, serialized>>

NextToggle ==
    \/ \E r \in TogglerRuns : toggle_get(r)
    \/ \E r \in TogglerRuns : toggle_put(r)
    \/ \E r \in TogglerRuns : toggle_window(r)

SpecToggle == InitToggle /\ [][NextToggle]_vars

---------------------------------------------------------------------------
(* The derivation of the destination name *)

\* values of --gh-org-name, --project-code, --bb-repo-name and --user-defined-name
OrgNames == {<<"p", "r", "u", "-", "y">>, <<"y">>, <<"P", "R", "U", "-", "Y">>, <<"y", "-", "p", "r", "u", "-", "b">>}

ProjectCodes == {<<"x">>, <<"X">>, <<"x", "p", "r", "u">>}

RepoNames == {<<"A", " ", "b">>, <<"a", "b">>, <<"a", " ", " ", "B">>}

UserDefinedNames == {NoneName, <<"n", "o", "n", "e">>, <<"B", " ", "a">>, <<"b">>}

InitName ==
    /\ MainIdle
    /\ TrackerIdle
    /\ ToggleIdle
    /\ StreamIdle
    /\ request \in [GH_ORG_NAME : OrgNames, PROJECT_CODE : ProjectCodes, BB_REPO_NAME : RepoNames,
                    USER_DEFINED_NAME : UserDefinedNames]
    /\ derived = [pc |-> "process_input", BB_REPO_NAME |-> None, GH_REPO_NAME |-> None]

\* line 71
name_process_input ==
    /\ derived.pc = "process_input"
    /\ derived' = [derived EXCEPT !.pc = "get_new_repo_name",
                                  !.BB_REPO_NAME = normalize(request.BB_REPO_NAME)]
    /\ UNCHANGED <<main, stream_vars, tracker_vars, toggle_vars, request>>

\* line 248: the call of get_new_repo_name
name_get_new_repo_name ==
    /\ derived.pc = "get_new_repo_name"
    /\ derived' = [derived EXCEPT !.pc = "named",
                                  !.GH_REPO_NAME = get_new_repo_name(request.GH_ORG_NAME, derived.BB_REPO_NAME,
                                                                     request.PROJECT_CODE,
                                                                     request.USER_DEFINED_NAME)]
    /\ UNCHANGED <<main, stream_vars, tracker_vars, toggle_vars, request>>

NextName ==
    \/ name_process_input
    \/ name_get_new_repo_name

SpecName == InitName /\ [][NextName]_vars

---------------------------------------------------------------------------
(* The driver of the export and import child processes *)

InitStream ==
    /\ MainIdle
    /\ TrackerIdle
    /\ ToggleIdle
    /\ NameIdle
    /\ child \in [pc : {"running"}, stdout : 0..MaxStdout, stderr : 0..MaxStderr]
    /\ pipes = [stdout |-> 0, stderr |-> 0]
    /\ driver \in [fn : {"run_export_archive", "run_import_archive"}, pc : {"readline"},
                   output : {0}, err : {0}]

\* the child writes a line to its standard output; the write blocks while the pipe is full
child_write_stdout ==
    /\ child.pc = "running"
    /\ child.stdout > 0
    /\ pipes.stdout < PipeCapacity
    /\ child' = [child EXCEPT !.stdout = @ - 1]
    /\ pipes' = [pipes EXCEPT !.stdout = @ + 1]
    /\ UNCHANGED <<main, tracker_vars, toggle_vars, name_vars, driver>>

\* the child writes a block to its error stream; the write blocks while the pipe is full
child_write_stderr ==
    /\ child.pc = "running"
    /\ child.stderr > 0
    /\ pipes.stderr < PipeCapacity
    /\ child' = [child EXCEPT !.stderr = @ - 1]
    /\ pipes' = [pipes EXCEPT !.stderr = @ + 1]
    /\ UNCHANGED <<main, tracker_vars, toggle_vars, name_vars, driver>>

\* the child has written everything and exits, which closes its ends of the pipes
child_exit ==
    /\ child.pc = "running"
    /\ child.stdout = 0
    /\ child.stderr = 0
    /\ child' = [child EXCEPT !.pc = "exited"]
    /\ UNCHANGED <<main, tracker_vars, toggle_vars, name_vars, pipes, driver>>

\* lines 153-158 and 223-228: readline returns a line, or '' at the end of the
\* stream, and blocks otherwise; the loop is left on '' once poll() reports the exit
driver_readline ==
    /\ driver.pc = "readline"
    /\ pipes.stdout > 0 \/ child.pc = "exited"
    /\ IF pipes.stdout > 0
       THEN /\ pipes' = [pipes EXCEPT !.stdout = @ - 1]
            /\ driver' = [driver EXCEPT !.output = @ + 1]
       ELSE /\ driver' = [driver EXCEPT !.pc = "wait"]
            /\ UNCHANGED pipes
    /\ UNCHANGED <<main, tracker_vars, toggle_vars, name_vars, child>>

\* lines 165-166 and 229-230: process.wait(), then the error stream is read to its end
driver_read_stderr ==
    /\ driver.pc = "wait"
    /\ child.pc = "exited"
    /\ driver' = [driver EXCEPT !.pc = "check", !.err = pipes.stderr]
    /\ pipes' = [pipes EXCEPT !.stderr = 0]
    /\ UNCHANGED <<main, tracker_vars, toggle_vars, name_vars, child>>

\* lines 167-173 and 231-234: sys.exit() when the error stream held anything
driver_check ==
    /\ driver.pc = "check"
    /\ driver' = [driver EXCEPT !.pc = IF driver.err > 0 THEN "exited" ELSE "returned"]
    /\ UNCHANGED <<main, tracker_vars, toggle_vars, name_vars, child, pipes>>

NextStream ==
    \/ child_write_stdout
    \/ child_write_stderr
    \/ child_exit
    \/ driver_readline
    \/ driver_read_stderr
    \/ driver_check

\* the operating system runs the child and the driver whenever they can take a step
SpecStream == InitStream /\ [][NextStream]_vars /\ WF_vars(NextStream)

---------------------------------------------------------------------------
(* C11 *)

ValidateStmt == Stmt("validate", "")

\* nothing of the destination, of the rulesets or of the staging directory has been touched
NothingMutated ==
    /\ writes = <<>>
    /\ effects = <<>>
    /\ rulesets = rulesets0
    /\ ledger = <<>>
    /\ ~staged

\* C11: a team lookup of validate that finds no team is the last request of the
\* run: the process has exited inside validate, the lookups before it went through
\* Viewers, Contributors, Managers in this order and all succeeded, and nothing has
\* been mutated; validate returns exactly when the project is known and the three
\* lookups succeeded.
C11_MissingTeam ==
    /\ \A i \in 1..Len(api) :
         (api[i].fn = "validate" /\ api[i].call = "team" /\ ~api[i].ok) =>
            /\ status = "exited"
            /\ i = Len(api)
            /\ Len(calls) = 2 /\ Last(calls) = ValidateStmt
            /\ ~Occurs(ValidateStmt, finished)
            /\ api[1] = Req("validate", "project", "200 count>0", TRUE)
            /\ \A j \in 2..i :
                 api[j] = Req("validate", "team", <<"Viewers", "Contributors", "Managers">>[j - 1], j < i)
            /\ NothingMutated
    /\ Occurs(ValidateStmt, finished) <=>
         /\ Len(api) >= 4
         /\ SubSeq(api, 1, 4) = <<Req("validate", "project", "200 count>0", TRUE),
                                  Req("validate", "team", "Viewers", TRUE),
                                  Req("validate", "team", "Contributors", TRUE),
                                  Req("validate", "team", "Managers", TRUE)>>

\* the second team is missing
C11_Witness ==
    /\ status = "exited"
    /\ Len(api) = 3
    /\ api[2] = Req("validate", "team", "Viewers", TRUE)
    /\ api[3] = Req("validate", "team", "Contributors", FALSE)

---------------------------------------------------------------------------
(* C12 *)

\* C12: when the registry does not answer 200 with a count above 0, that request is
\* the only one of the run: the process has exited inside validate, no team was
\* looked up, no later statement started and nothing has been mutated.
C12_UnknownProject ==
    \A i \in 1..Len(api) :
        (api[i].fn = "validate" /\ api[i].call = "project" /\ api[i].item # "200 count>0") =>
            /\ status = "exited"
            /\ Len(api) = 1
            /\ Len(calls) = 2 /\ Last(calls) = ValidateStmt
            /\ Len(finished) = 1
            /\ GH_NEW_REPO_NAME = None
            /\ EXPORT_ARCHIVE_FILE_PATH = None
            /\ NothingMutated

\* the registry answers 200 with count = 0
C12_Witness ==
    /\ status = "exited"
    /\ api = <<Req("validate", "project", "200 count=0", FALSE)>>

---------------------------------------------------------------------------
(* C13 *)

\* C13: when the export returned without an archive path, the run gets no further
\* than the call of scp_command: that call ends the process before its first
\* command, and no download command, ruleset write, import or post-migration step
\* has been executed.
C13_NoArchivePath ==
    (Occurs(Stmt("run_export_archive", ""), finished) /\ EXPORT_ARCHIVE_FILE_PATH = None) =>
        /\ Len(calls) \in {4, 5}
        /\ Len(calls) = 4 => status = "running" /\ Cur.fn = "scp_command"
        /\ Len(calls) = 5 => status = "crashed" /\ Last(calls).fn = "scp_command"
        /\ Last(api).fn = "run_export_archive"
        /\ \A i \in 1..Len(api) : api[i].fn # "scp_command"
        /\ NothingMutated

C13_Witness ==
    /\ status = "crashed"
    /\ Last(calls).fn = "scp_command"
    /\ EXPORT_ARCHIVE_FILE_PATH = None
    /\ Last(api) = Req("run_export_archive", "process", "empty", FALSE)

---------------------------------------------------------------------------
(* C14 *)

DownloadRequests == SelectSeq(api, LAMBDA r : r.fn = "scp_command")

\* C14: the commands of the download are issued once each in the order stage,
\* transfer, delete, each after the previous one succeeded; a failing command is
\* the last thing the run does (the process ends inside scp_command), and the
\* download returns only after all three succeeded.
C14_Download ==
    /\ Len(DownloadRequests) <= 3
    /\ \A k \in 1..Len(DownloadRequests) :
         /\ DownloadRequests[k].item = <<"stage", "transfer", "delete">>[k]
         /\ k < Len(DownloadRequests) => DownloadRequests[k].ok
    /\ \A i \in 1..Len(api) :
         (api[i].fn = "scp_command" /\ ~api[i].ok) =>
            /\ status = "crashed"
            /\ i = Len(api)
            /\ Last(calls).fn = "scp_command"
            /\ ~Occurs(Stmt("scp_command", ""), finished)
            /\ writes = <<>> /\ effects = <<>> /\ rulesets = rulesets0
    /\ Occurs(Stmt("scp_command", ""), finished) =>
         /\ Len(DownloadRequests) = 3
         /\ DownloadRequests[3].ok

\* the transfer fails
C14_Witness ==
    /\ status = "crashed"
    /\ Len(DownloadRequests) = 2
    /\ Last(api) = Req("scp_command", "run_command", "transfer", FALSE)

---------------------------------------------------------------------------
(* C15 *)

\* C15: no terminated run leaves the staged copy of the archive in the staging
\* directory.
C15_StagedFileDeleted == Terminated => ~staged

---------------------------------------------------------------------------
(* C16 *)

IsRulesetRequest(r) == r.fn \in {"repo_name_to_exclusion_ruleset", "update_ruleset"}

\* the run ended at request i of the toggle
EndedAt(i) ==
    /\ status = "exited"
    /\ i = Len(api)
    /\ Last(calls).fn = "repo_name_to_exclusion_ruleset"
    /\ ~Occurs(Last(calls), finished)

\* C16 as stated: an answer outside 2xx to a ruleset request ends the process at
\* that request, and an answer inside 2xx never does.
C16_Every2xxSucceeds ==
    \A i \in 1..Len(api) :
        IsRulesetRequest(api[i]) =>
            IF api[i].code >= 200 /\ api[i].code < 300
            THEN ~(status = "exited" /\ i = Len(api))
            ELSE EndedAt(i)

\* C16 amended: an answer with a status code other than 200 and 201 (any non-2xx
\* code, and any other 2xx code such as 204) to the list read, to a condition read
\* or to a write ends the process at that request, so that no further ruleset is
\* read or written; an answer 200 or 201 never ends it.
C16_Only200And201Succeed ==
    \A i \in 1..Len(api) :
        IsRulesetRequest(api[i]) =>
            IF api[i].code \in {200, 201}
            THEN ~(status = "exited" /\ i = Len(api))
            ELSE EndedAt(i)

\* a write answered with 204 ends the run
C16_Witness ==
    /\ status = "exited"
    /\ Last(api).fn = "update_ruleset"
    /\ Last(api).code = 204
    /\ Len(writes) = 2

---------------------------------------------------------------------------
(* C17 *)

Puts == SelectSeq(tracker_log, LAMBDA q : q.call = "put")

AcceptedPuts == SelectSeq(Puts, LAMBDA q : q.code = 200)

\* C17: a write that carries a hash other than the one the file has is not
\* accepted, and the file holds its initial rows followed by the row of every run
\* whose write was accepted, in the order of acceptance.
C17_NoAcceptedAppendLost ==
    /\ \A i \in 1..Len(Puts) : Puts[i].sha # Puts[i].current => Puts[i].code # 200
    /\ migration_tracker = tracker0 \o [i \in 1..Len(AcceptedPuts) |-> additional_content(AcceptedPuts[i].run)]

\* both runs read the same content; the first write is accepted, the second refused
C17_Witness ==
    /\ Len(Puts) = 2
    /\ Puts[1].code = 200
    /\ Puts[2].code = 409
    /\ Puts[1].sha = Puts[2].sha

---------------------------------------------------------------------------
(* C18 *)

\* run r is inside its import window and its name is not in the exclude list of
\* a shared ruleset
LostUpdate(r) ==
    /\ toggler[r].pc = "import"
    /\ \E i \in 1..Len(org_ruleset) : ~Occurs(TogglerRepo[r], org_ruleset[i].repository_name.exclude)

\* C18: a run inside its import window whose repository name is absent from the
\* exclude list of a shared ruleset exists only when the two runs are not
\* serialized: with serialized runs that state is unreachable.
C18_LostUpdateOnlyUnserialized ==
    \A r \in TogglerRuns : LostUpdate(r) => ~serialized

\* the lost update: both runs are inside their import windows, and the write of
\* the second has replaced the list that held the name of the first
C18_Witness ==
    /\ ~serialized
    /\ toggler[1].pc = "import"
    /\ toggler[2].pc = "import"
    /\ ~Occurs(TogglerRepo[1], org_ruleset[1].repository_name.exclude)
    /\ Occurs(TogglerRepo[2], org_ruleset[1].repository_name.exclude)

---------------------------------------------------------------------------
(* C19 *)

RequestsOf(r, call) == SelectSeq(tracker_log, LAMBDA q : q.run = r /\ q.call = call)

\* position of the first request of run r of that kind in the log
FirstOf(r, call) ==
    CHOOSE i \in 1..Len(tracker_log) :
        /\ tracker_log[i].run = r /\ tracker_log[i].call = call
        /\ \A j \in 1..(i - 1) : ~(tracker_log[j].run = r /\ tracker_log[j].call = call)

\* C19: a run reads the file at most once and writes it at most once; its write
\* follows its read, which was answered 200, and carries the hash that read
\* returned and the content that read returned followed by exactly the run's row;
\* once the write was answered, accepted or not, the run is at remove_repo_admin
\* or past it and has issued no further request for the file.
C19_OneReadOneWriteNoRetry ==
    \A r \in TrackerRuns :
        LET gets == RequestsOf(r, "get")
            puts == RequestsOf(r, "put")
        IN  /\ Len(gets) <= 1
            /\ Len(puts) <= 1
            /\ Len(puts) = 1 =>
                 /\ Len(gets) = 1
                 /\ gets[1].code = 200
                 /\ FirstOf(r, "get") < FirstOf(r, "put")
                 /\ puts[1].sha = gets[1].sha
                 /\ puts[1].content = gets[1].content \o <<additional_content(r)>>
                 /\ appender[r].pc \in {"remove_repo_admin", "done"}
            /\ appender[r].pc \in {"remove_repo_admin", "done"} => Len(puts) = 1

\* a run whose write was refused for its stale hash has gone on to remove_repo_admin
C19_Witness ==
    \E r \in TrackerRuns :
        /\ Len(RequestsOf(r, "put")) = 1
        /\ RequestsOf(r, "put")[1].code = 409
        /\ Len(RequestsOf(r, "get")) = 1
        /\ appender[r].pc = "done"

---------------------------------------------------------------------------
(* C20 *)

TenantPrefix == <<"p", "r", "u", "-">>

\* the organization name without its tenant prefix
WithoutTenantPrefix(org) ==
    IF IsPrefixAt(org, TenantPrefix, 1) THEN SubSeq(org, Len(TenantPrefix) + 1, Len(org)) ELSE org

\* the override unless it is the sentinel, otherwise the normalised source name;
\* an override has its spaces written as hyphens, as the source name has
Slug(override, normalized) ==
    IF override # NoneName THEN Replace(override, <<" ">>, <<"-">>) ELSE normalized

\* C20: the destination name is the lower-cased concatenation of the organization
\* name without its tenant prefix, "-", the project code, "-" and the slug, the
\* slug being the override when one is given and the normalised source name
\* otherwise.
C20_DestinationName ==
    derived.pc = "named" =>
        derived.GH_REPO_NAME =
            Lower(WithoutTenantPrefix(request.GH_ORG_NAME) \o <<"-">> \o request.PROJECT_CODE \o <<"-">>
                  \o Slug(request.USER_DEFINED_NAME, normalize(request.BB_REPO_NAME)))

---------------------------------------------------------------------------
(* C21 *)

\* the webhook registrations attempted so far, by their variant
WebhookAttempts ==
    LET posts == SelectSeq(api, LAMBDA r : r.fn = "update_repository_webhook")
    IN  [i \in 1..Len(posts) |-> posts[i].item]

\* C21: once the post-migration sequence has completed (remove_repo_admin has
\* returned), one or two webhook registrations have been attempted: the variant's
\* own for Platform_Jenkins and for Old_Jenkins, Platform then Old for
\* Both_Jenkins, and never none.
C21_WebhooksAttempted ==
    Occurs(Stmt("remove_repo_admin", ""), finished) =>
        /\ Len(WebhookAttempts) \in {1, 2}
        /\ args.PIPELINE_TYPE \in {"Platform_Jenkins", "Old_Jenkins"} =>
             WebhookAttempts = <<args.PIPELINE_TYPE>>
        /\ args.PIPELINE_TYPE = "Both_Jenkins" =>
             WebhookAttempts = <<"Platform_Jenkins", "Old_Jenkins">>

---------------------------------------------------------------------------
(* C22 *)

\* s without its k-th element
Without(s, k) == SubSeq(s, 1, k - 1) \o SubSeq(s, k + 1, Len(s))

\* C22: every write of a toggle goes to a ruleset whose name is on the list of
\* line 622 and whose conditions hold a repository_name entry, and carries the
\* conditions as read but for one element of the exclude list: the repository name
\* appended ('add') or one occurrence of it dropped ('remove', where "~ALL" joins
\* an include list that would be left empty beside an empty exclude list); every
\* other ruleset of the organization is as it was when the run started, and no
\* ruleset changes its id or name.
C22_ToggleFrame ==
    /\ \A k \in 1..Len(writes) :
         LET w == writes[k]
             read == w.read.repository_name
             written == w.written.repository_name
         IN  /\ w.name \in {"branch_names", "main_and_master", "other_protected_branch ",
                            "restrict_binary_file_upload"}
             /\ "repository_name" \in DOMAIN w.read
             /\ DOMAIN w.written = DOMAIN w.read
             /\ \A f \in DOMAIN w.read \ {"repository_name"} : w.written[f] = w.read[f]
             /\ w.action = "add" =>
                  /\ written.exclude = Append(read.exclude, GH_NEW_REPO_NAME)
                  /\ written.include = read.include
             /\ w.action = "remove" =>
                  /\ \E j \in 1..Len(read.exclude) :
                       /\ read.exclude[j] = GH_NEW_REPO_NAME
                       /\ written.exclude = Without(read.exclude, j)
                  /\ \/ written.include = read.include
                     \/ /\ read.include = <<>> /\ written.exclude = <<>>
                        /\ written.include = <<ALL>>
    /\ Len(rulesets) = Len(rulesets0)
    /\ \A i \in 1..Len(rulesets) :
         /\ rulesets[i].id = rulesets0[i].id
         /\ rulesets[i].name = rulesets0[i].name
         /\ ~Toggled(i) => rulesets[i] = rulesets0[i]
         /\ rulesets[i] # rulesets0[i] =>
              \E k \in 1..Len(writes) : writes[k].name = rulesets[i].name

\* 'add' has written the two managed rulesets and left the third, which holds a
\* repository_name entry too, as it was
C22_Witness ==
    /\ Occurs(AddStmt, finished)
    /\ Len(writes) = 2
    /\ rulesets[1] # rulesets0[1]
    /\ rulesets[3] # rulesets0[3]
    /\ "repository_name" \in DOMAIN rulesets[2].conditions
    /\ rulesets[2] = rulesets0[2]

---------------------------------------------------------------------------
(* C25 *)

\* the toggle under way has ended the process
FailedToggle ==
    /\ status = "exited"
    /\ Last(calls).fn = "repo_name_to_exclusion_ruleset"
    /\ ~Occurs(Last(calls), finished)

\* the write of toggle a to the i-th listed ruleset
WriteOf(a, i) ==
    CHOOSE w \in {writes[k] : k \in 1..Len(writes)} : w.action = a /\ w.name = rulesets[i].name

Written(a, i) ==
    \E k \in 1..Len(writes) : writes[k].action = a /\ writes[k].name = rulesets[i].name

\* the conditions of the i-th listed ruleset when toggle a started
Before(a, i) ==
    IF a = "remove" /\ Written("add", i) THEN WriteOf("add", i).written ELSE rulesets0[i].conditions

\* position in the list of the ruleset a write went to
ListIndex(w) == CHOOSE i \in 1..Len(rulesets) : rulesets[i].name = w.name

\* C25: the writes of a toggle go through the rulesets in list order, and when the
\* toggle ends the process at the k-th listed ruleset, every toggled ruleset
\* before it holds the change that was written, accepted, and every ruleset after
\* it holds what it held when the toggle started: nothing is rolled back.
C25_NoRollback ==
    /\ \A p \in 1..Len(writes), q \in 1..Len(writes) :
         (p < q /\ writes[p].action = writes[q].action) => ListIndex(writes[p]) < ListIndex(writes[q])
    /\ FailedToggle =>
         LET a == Last(calls).arg
         IN  \A i \in 1..Len(rulesets) :
                /\ (i < sub /\ Toggled(i)) =>
                     /\ Written(a, i)
                     /\ WriteOf(a, i).ok
                     /\ WriteOf(a, i).read = Before(a, i)
                     /\ rulesets[i].conditions = WriteOf(a, i).written
                     /\ rulesets[i].conditions # Before(a, i)
                /\ i > sub =>
                     /\ ~Written(a, i)
                     /\ rulesets[i].conditions = Before(a, i)

\* 'add' has ended the process at the third ruleset: the first holds the name, the
\* third does not
C25_Witness ==
    /\ FailedToggle
    /\ Last(calls) = AddStmt
    /\ sub = 3
    /\ Occurs(GH_NEW_REPO_NAME, rulesets[1].conditions.repository_name.exclude)
    /\ rulesets[1] # rulesets0[1]
    /\ "repository_name" \in DOMAIN rulesets[3].conditions
    /\ rulesets[3] = rulesets0[3]

---------------------------------------------------------------------------
(* C26 *)

\* C26: a run that has ended without having started the 'add' toggle has issued
\* no request for a ruleset, written no ruleset and applied no change to the
\* destination repository: the rulesets are those of the run's start.
C26_NothingBeforeAdd ==
    (status \in {"exited", "crashed", "blocked"} /\ ~Occurs(AddStmt, calls)) =>
        /\ writes = <<>>
        /\ effects = <<>>
        /\ rulesets = rulesets0
        /\ \A i \in 1..Len(api) : ~IsRulesetRequest(api[i])
        /\ \A i \in 1..Len(calls) : calls[i].fn \notin MutatingFns

\* the download has failed
C26_Witness ==
    /\ status = "crashed"
    /\ Last(calls).fn = "scp_command"
    /\ Len(DownloadRequests) >= 1
    /\ ~Last(api).ok

---------------------------------------------------------------------------
(* C23 *)

\* C23: whatever the child writes to its standard output and to its error stream,
\* the driver eventually leaves the loop that streams the standard output, and
\* with that reaches the check of the error stream.
C23_DriverLeavesLoop == <>(driver.pc # "readline")

---------------------------------------------------------------------------
(* C24 *)

\* C24: a run is about to write a ruleset in 'remove' only when the exclude list
\* it read holds its repository name; a run that read a list without its name has
\* crashed at that ruleset, after the read and without the write, and has issued
\* no request for any later ruleset of the list.
C24_RemoveOfAbsentNameAborts ==
    \A r \in TogglerRuns :
        LET t == toggler[r]
        IN  /\ t.pc = "remove_put" => Occurs(TogglerRepo[r], t.condition.repository_name.exclude)
            /\ t.pc = "crashed" =>
                 /\ ~Occurs(TogglerRepo[r], t.condition.repository_name.exclude)
                 /\ <<"remove", t.sub>> \in t.issued.get
                 /\ <<"remove", t.sub>> \notin t.issued.put
                 /\ \A j \in (t.sub + 1)..Len(org_ruleset) :
                      <<"remove", j>> \notin t.issued.get \cup t.issued.put

\* the first run has crashed in 'remove' at the first ruleset, whose list had lost
\* its name; the second ruleset still holds the name
C24_Witness ==
    /\ toggler[1].pc = "crashed"
    /\ toggler[1].sub = 1
    /\ toggler[1].issued.get = {<<"add", 1>>, <<"add", 2>>, <<"remove", 1>>}
    /\ Occurs(TogglerRepo[1], org_ruleset[2].repository_name.exclude)

====
